---- MODULE Spec2Model ----
(***************************************************************************)
(* Reconciliation of Prefect RUNNING flow-runs with CANFAR sessions        *)
(* (automation/canfar_polling.py).                                         *)
(*                                                                         *)
(* Strings are sequences of one-character strings, so that startswith,     *)
(* slicing, strip and lower are computed character by character.           *)
(***************************************************************************)
EXTENDS Integers, Sequences, FiniteSets, TLC

\* ------------------------------------------------------------------ bounds

\* Number of flow-runs known to Prefect.
NRec == 2
\* Number of reconciliation passes run one after the other.
MaxPasses == 2

Recs == 1..NRec

\* ----------------------------------------------------------------- strings

Whitespace == {" ", "\t", "\n"}

UpperChars == <<"A","B","C","D","E","F","G","H","I","J","K","L","M",
                "N","O","P","Q","R","S","T","U","V","W","X","Y","Z">>
LowerChars == <<"a","b","c","d","e","f","g","h","i","j","k","l","m",
                "n","o","p","q","r","s","t","u","v","w","x","y","z">>

\* str.lower() on one character
LowerChar(c) ==
    IF \E k \in 1..Len(UpperChars) : UpperChars[k] = c
    THEN LowerChars[CHOOSE k \in 1..Len(UpperChars) : UpperChars[k] = c]
    ELSE c

\* str.lower()
Lower(s) == [k \in 1..Len(s) |-> LowerChar(s[k])]

\* str.startswith(p)
StartsWith(s, p) == Len(s) >= Len(p) /\ SubSeq(s, 1, Len(p)) = p

RECURSIVE LStrip(_)
LStrip(s) == IF s # <<>> /\ Head(s) \in Whitespace THEN LStrip(Tail(s)) ELSE s

RECURSIVE RStrip(_)
RStrip(s) ==
    IF s # <<>> /\ s[Len(s)] \in Whitespace THEN RStrip(SubSeq(s, 1, Len(s) - 1)) ELSE s

\* str.strip()
Strip(s) == RStrip(LStrip(s))

\* Python's None, as a value no string equals (its element is no character).
NoneVal == <<"None">>

\* --------------------------------------------------------------- constants

\* canfar-num-retries, the default of MAX_RETRY
MAX_RETRY == 2

TAG_PREFIX == <<"c","a","n","f","a","r","_","s","e","s","s","i","o","n",":">>

STR_running == <<"r","u","n","n","i","n","g">>

\* -------------------------------------------------------- input catalogues

Sid1 == <<"s","1">>
Sid2 == <<"s","2">>

\* Tags a flow-run may carry.
TagS1 == TAG_PREFIX \o Sid1
TagS2Padded == TAG_PREFIX \o <<" ">> \o Sid2 \o <<" ">>
TagBlankId == TAG_PREFIX \o <<" ">>
TagOther == <<"c","a","n","f","a","r">>

TagLists ==
    { <<TagOther>>,
      <<TagS1>>,
      <<TagOther, TagS2Padded>>,
      <<TagBlankId, TagS1>> }

\* Statuses the CANFAR session listing reports.
StRunning == <<"R","u","n","n","i","n","g">>
StRUNNING == <<"R","U","N","N","I","N","G">>
StPending == <<"P","e","n","d","i","n","g">>
StTerminating == <<"T","e","r","m","i","n","a","t","i","n","g">>
StSucceeded == <<"S","u","c","c","e","e","d","e","d">>
StCompleted == <<"C","o","m","p","l","e","t","e","d">>
StError == <<"E","r","r","o","r">>
StFailed == <<"F","a","i","l","e","d">>

SessionStatuses ==
    { StRunning, StRUNNING, STR_running, StPending, StTerminating,
      StSucceeded, StCompleted, StError, StFailed }

\* Ids as the session listing reports them (one padded, one blank).
RawIds == { Sid1, <<" ">> \o Sid2, <<" ">> }

\* The session listing: each id is open with some status, or not open.
NotOpen == <<"NotOpen">>
Listings == [RawIds -> SessionStatuses \cup {NotOpen}]

\* DataFrames get_open_sessions returns: pd.DataFrame() (no columns, no rows)
\* when nothing is open, else one row per open session.
EmptyFrame == [columns |-> {}, rows |-> {}]
SessionColumns == {"type", "status", "startTime", "name", "id"}

\* get_open_sessions
get_open_sessions(listing) ==
    LET open == { x \in RawIds : listing[x] # NotOpen }
    IN  IF Cardinality(open) = 0 THEN EmptyFrame
        ELSE [columns |-> SessionColumns,
              rows |-> { [id |-> x, status |-> listing[x]] : x \in open }]

SessionFrames == { get_open_sessions(l) : l \in Listings }

\* ---------------------------------------------------------- pure functions

\* isinstance(t, str): a tag that is None is no string
IsStr(t) == t # NoneVal

\* extract_session_id_from_tags, were the id not stripped
RECURSIVE extract_no_strip(_)
extract_no_strip(ts) ==
    IF ts = <<>> THEN NoneVal
    ELSE IF IsStr(Head(ts)) /\ StartsWith(Head(ts), TAG_PREFIX)
         THEN LET sid == SubSeq(Head(ts), Len(TAG_PREFIX) + 1, Len(Head(ts)))
              IN  IF sid = <<>> THEN NoneVal ELSE sid
         ELSE extract_no_strip(Tail(ts))

\* extract_session_id_from_tags, were it to go on to later tags after an empty id
RECURSIVE extract_keep_scanning(_)
extract_keep_scanning(ts) ==
    IF ts = <<>> THEN NoneVal
    ELSE LET sid == Strip(SubSeq(Head(ts), Len(TAG_PREFIX) + 1, Len(Head(ts))))
         IN  IF IsStr(Head(ts)) /\ StartsWith(Head(ts), TAG_PREFIX) /\ sid # <<>>
             THEN sid
             ELSE extract_keep_scanning(Tail(ts))

\* extract_session_id_from_tags
RECURSIVE extract_session_id_from_tags(_)
extract_session_id_from_tags(ts) ==
    IF ts = <<>> THEN NoneVal
    ELSE IF IsStr(Head(ts)) /\ StartsWith(Head(ts), TAG_PREFIX)
         THEN LET sid == Strip(SubSeq(Head(ts), Len(TAG_PREFIX) + 1, Len(Head(ts))))
              IN  IF sid = <<>> THEN NoneVal ELSE sid
         ELSE extract_session_id_from_tags(Tail(ts))

\* build_running_canfar_session_set, were the status compared as it is spelled
build_case_sensitive(df) ==
    IF Cardinality(df.rows) = 0 THEN {}
    ELSE IF ~ ({"status", "id"} \subseteq df.columns) THEN {}
    ELSE LET running == { row \in df.rows : row.status = <<"R","u","n","n","i","n","g">> }
         IN  { Strip(row.id) : row \in running } \ { <<>> }

\* build_running_canfar_session_set
build_running_canfar_session_set(df) ==
    IF Cardinality(df.rows) = 0 THEN {}
    ELSE IF ~ ({"status", "id"} \subseteq df.columns) THEN {}
    ELSE LET running == { row \in df.rows : Lower(row.status) = STR_running }
         IN  { Strip(row.id) : row \in running } \ { <<>> }

\* Every running-set the first step of a pass can compute.
RunningSetsFetched == { build_running_canfar_session_set(df) : df \in SessionFrames }

\* _fetch_prefect_running_flow_runs: the RUNNING flow-runs in id order, at most lim.
RECURSIVE RunningFrom(_, _)
RunningFrom(st, k) ==
    IF k > NRec THEN <<>>
    ELSE IF st[k] = "Running" THEN <<k>> \o RunningFrom(st, k + 1)
    ELSE RunningFrom(st, k + 1)

\* the fetch, were the state filter missing
fetch_all_flow_runs(st, lim) ==
    SubSeq([k \in 1..NRec |-> k], 1, IF NRec < lim THEN NRec ELSE lim)

\* the fetch, were the limit not passed on
fetch_ignores_limit(st, lim) == RunningFrom(st, 1)

fetch_prefect_running_flow_runs(st, lim) ==
    LET all == RunningFrom(st, 1)
    IN  SubSeq(all, 1, IF Len(all) < lim THEN Len(all) ELSE lim)

\* _fail_flow_run, were the write lost
fail_flow_run_dropped(st, r) == st

\* _fail_flow_run: set_flow_run_state(flow_run_id, Failed(...))
fail_flow_run(st, r) == [st EXCEPT ![r] = "Failed"]

\* the except branch, were it to leave canfar_ok set
canfar_ok_on_exception_true == TRUE

\* What the except branch of the CANFAR fetch sets canfar_ok to.
canfar_ok_on_exception == FALSE

\* the escalation test, were it always true / inverted
session_missing_always(session_id, running) == TRUE
session_missing_inverted(session_id, running) == session_id \in running

\* The test that decides an escalation.
session_missing(session_id, running) == session_id \notin running

\* Number of flow-runs of frs (from position k on) that carry a session id.
RECURSIVE CountTagged(_, _, _)
CountTagged(frs, tg, k) ==
    IF k > Len(frs) THEN 0
    ELSE (IF extract_session_id_from_tags(tg[frs[k]]) # NoneVal THEN 1 ELSE 0)
         + CountTagged(frs, tg, k + 1)

\* ------------------------------------------------------------------- state

VARIABLES
    tags,                     \* Prefect: flow-run -> list of tags
    state,                    \* Prefect: flow-run -> state type
    pc,                       \* position of the pass
    pass,                     \* number of the pass (1..MaxPasses)
    limit,                    \* argument of the pass
    canfar_ok,
    running_canfar_sessions,
    running_flow_runs,        \* the fetched flow-runs (ids), in order
    idx,                      \* position of the reconcile loop
    skipped_untagged,
    checked_tagged_running,
    missing_or_not_running,
    failed_marked,
    result,                   \* the ReconcileResult returned, or NoResult
    \* history
    fetch_raised,             \* the CANFAR fetch of this pass raised
    issued,                   \* flow-run -> set_failed calls issued in this pass
    applied_total,            \* flow-run -> Failed writes applied, all passes
    write_pre,                \* flow-run -> state it was in when last written
    misses,                   \* flow-run -> consecutive passes that found its session missing
    error,                    \* the Prefect call that raised in this pass, or "none"
    \* the decision taken for one flow-run, as a function of its inputs
    dpc,
    d_listing,                \* input: the CANFAR session listing
    d_tags,                   \* input: the tags of the flow-run
    d_running,                \* running_canfar_sessions
    d_session_id,             \* session_id
    d_outcome                 \* "skipped", "kept" or "failed"

\* run_canfar_task_with_polling (automation/canfar_wrapper.py)
VARIABLES
    spc,                      \* position of the call
    retry_count,
    sup_session_id,           \* session_id of run_canfar_task_with_polling
    status,                   \* last status polled for the session
    logs_dict,                \* what session.logs(...) gave
    remote,                   \* CANFAR: status of the n-th session launched
    \* history
    launches,                 \* launch_fn invocations
    log_calls,                \* session.logs invocations
    logged,                   \* session ids whose logs were retrieved
    polls,                    \* status polls of the current attempt
    sleeps,                   \* sleeps of the current attempt
    hist,                     \* per finished attempt: how it was launched and ended
    sup_error,                \* the call that raised out of the task, or "none"
    sup_message               \* the number in the RuntimeError's message, or NoMessage

\* main_flow (possum_pipeline_control/launch_1Dpipeline_PartialTiles_band1.py)
VARIABLES
    flow_pc,                  \* position of main_flow
    flow_launches             \* launch_session invocations

\* the frame handed to build_running_canfar_session_set
VARIABLES
    session_df

\* passes that run side by side, against a CANFAR that changes
VARIABLES
    directory,                \* CANFAR: ids of the sessions running now
    c_pc,                     \* pass -> position
    c_canfar_ok,              \* pass -> canfar_ok
    c_running,                \* pass -> running_canfar_sessions
    c_frs,                    \* pass -> running_flow_runs
    c_idx,                    \* pass -> position of the reconcile loop
    c_counts,                 \* pass -> the four counters
    c_result,                 \* pass -> the ReconcileResult returned, or NoResult
    \* history
    c_issued,                 \* pass -> flow-run -> set_failed calls issued
    c_live                    \* pass -> flow-run -> "live": its session was running when written

locals == <<canfar_ok, running_canfar_sessions, running_flow_runs, idx,
            skipped_untagged, checked_tagged_running, missing_or_not_running,
            failed_marked>>
counters == <<skipped_untagged, checked_tagged_running, missing_or_not_running,
              failed_marked>>
history == <<fetch_raised, issued, applied_total, write_pre, misses, error>>
rvars == <<tags, state, pc, pass, limit, locals, result, history>>
dvars == <<dpc, d_listing, d_tags, d_running, d_session_id, d_outcome>>
svars == <<spc, retry_count, sup_session_id, status, logs_dict, remote, launches,
           log_calls, logged, polls, sleeps, hist, sup_error, sup_message>>
mvars == <<flow_pc, flow_launches>>
fvars == <<session_df>>
cvars == <<directory, c_pc, c_canfar_ok, c_running, c_frs, c_idx, c_counts,
           c_result, c_issued, c_live>>
others == <<mvars, fvars, cvars>>
vars == <<rvars, dvars, svars, others>>

\* Everything but the reconciliation pass.
aux == <<dvars, svars, others>>

\* No RuntimeError was raised.
NoMessage == -1

\* No supervised task is running.
SupOff ==
    /\ spc = "off"
    /\ retry_count = 0
    /\ sup_session_id = <<>>
    /\ status = <<"unset">>
    /\ logs_dict = <<"unset">>
    /\ remote = <<>>
    /\ launches = 0
    /\ log_calls = 0
    /\ logged = {}
    /\ polls = 0
    /\ sleeps = 0
    /\ hist = <<>>
    /\ sup_error = "none"
    /\ sup_message = NoMessage

\* The passes that run side by side.
ConcPasses == {1, 2}

\* main_flow is not running.
FlowOff ==
    /\ flow_pc = "off"
    /\ flow_launches = 0

\* No frame is under test.
FrameOff == session_df = [columns |-> {}, rows |-> {}]

\* No side-by-side passes are running.
ConcOff ==
    /\ directory = {}
    /\ c_pc = [p \in ConcPasses |-> "off"]
    /\ c_canfar_ok = [p \in ConcPasses |-> FALSE]
    /\ c_running = [p \in ConcPasses |-> {}]
    /\ c_frs = [p \in ConcPasses |-> <<>>]
    /\ c_idx = [p \in ConcPasses |-> 1]
    /\ c_counts = [p \in ConcPasses |-> [skipped |-> 0, checked |-> 0,
                                          missing |-> 0, failed |-> 0]]
    /\ c_result = [p \in ConcPasses |-> [none |-> TRUE]]
    /\ c_issued = [p \in ConcPasses |-> [r \in Recs |-> 0]]
    /\ c_live = [p \in ConcPasses |-> [r \in Recs |-> "none"]]

NoResult == [none |-> TRUE]
NeverWritten == "never"

ReconcileResult(ok, n, checked, failed, skipped, missing) ==
    [canfar_ok |-> ok, running_flow_runs |-> n, checked_tagged_running |-> checked,
     failed_marked |-> failed, skipped_untagged |-> skipped,
     missing_or_not_running |-> missing]

Init ==
    /\ tags \in [Recs -> TagLists]
    /\ state \in [Recs -> {"Scheduled", "Running"}]
    /\ pc = "fetch_canfar"
    /\ pass = 1
    /\ limit \in 1..NRec
    /\ canfar_ok = FALSE
    /\ running_canfar_sessions = {}
    /\ running_flow_runs = <<>>
    /\ idx = 1
    /\ skipped_untagged = 0
    /\ checked_tagged_running = 0
    /\ missing_or_not_running = 0
    /\ failed_marked = 0
    /\ result = NoResult
    /\ fetch_raised = FALSE
    /\ issued = [r \in Recs |-> 0]
    /\ applied_total = [r \in Recs |-> 0]
    /\ write_pre = [r \in Recs |-> NeverWritten]
    /\ misses = [r \in Recs |-> 0]
    /\ error = "none"
    /\ dpc = "off"
    /\ d_listing = [x \in RawIds |-> NotOpen]
    /\ d_tags = <<>>
    /\ d_running = {}
    /\ d_session_id = NoneVal
    /\ d_outcome = "none"
    /\ SupOff
    /\ FlowOff
    /\ FrameOff
    /\ ConcOff

\* ----------------------------------------------------------------- actions

\* lines 118-121: the CANFAR fetch succeeds
FetchCanfar ==
    /\ pc = "fetch_canfar"
    /\ \E rs \in RunningSetsFetched : running_canfar_sessions' = rs
    /\ canfar_ok' = TRUE
    /\ pc' = "fetch_prefect"
    /\ UNCHANGED <<tags, state, pass, limit, running_flow_runs, idx, counters,
                   result, history>>
    /\ UNCHANGED aux

\* lines 122-125: get_open_sessions (or building the set) raises
FetchCanfarRaises ==
    /\ pc = "fetch_canfar"
    /\ running_canfar_sessions' = {}
    /\ canfar_ok' = canfar_ok_on_exception
    /\ fetch_raised' = TRUE
    /\ pc' = "fetch_prefect"
    /\ UNCHANGED <<tags, state, pass, limit, running_flow_runs, idx, counters,
                   result, issued, applied_total, write_pre, misses, error>>
    /\ UNCHANGED aux

\* lines 128-135: the Prefect fetch returns
FetchPrefect ==
    /\ pc = "fetch_prefect"
    /\ running_flow_runs' = fetch_prefect_running_flow_runs(state, limit)
    /\ pc' = IF canfar_ok THEN "reconcile" ELSE "outage"
    /\ UNCHANGED <<tags, state, pass, limit, canfar_ok, running_canfar_sessions,
                   idx, counters, result, history>>
    /\ UNCHANGED aux

\* the Prefect fetch, were its exception caught like the CANFAR one
FetchPrefectSwallowed ==
    /\ pc = "fetch_prefect"
    /\ running_flow_runs' = <<>>
    /\ pc' = IF canfar_ok THEN "reconcile" ELSE "outage"
    /\ error' = "read_flow_runs"
    /\ UNCHANGED <<tags, state, pass, limit, canfar_ok, running_canfar_sessions,
                   idx, counters, result, fetch_raised, issued, applied_total,
                   write_pre, misses>>
    /\ UNCHANGED aux

\* line 128: the Prefect fetch raises, and reconcile with it
FetchPrefectRaises ==
    /\ pc = "fetch_prefect"
    /\ pc' = "raised"
    /\ error' = "read_flow_runs"
    /\ UNCHANGED <<tags, state, pass, limit, locals, result, fetch_raised, issued,
                   applied_total, write_pre, misses>>
    /\ UNCHANGED aux

\* lines 135-153, were the outage branch to return without counting
OutageReturnUncounted ==
    /\ pc = "outage"
    /\ checked_tagged_running' = 0
    /\ skipped_untagged' = 0
    /\ result' = ReconcileResult(FALSE, Len(running_flow_runs), 0, 0, 0, 0)
    /\ pc' = "returned"
    /\ UNCHANGED <<tags, state, pass, limit, canfar_ok, running_canfar_sessions,
                   running_flow_runs, idx, missing_or_not_running, failed_marked,
                   history>>
    /\ UNCHANGED aux

\* lines 135-153: the outage branch counts and returns
OutageReturn ==
    /\ pc = "outage"
    /\ LET tagged == CountTagged(running_flow_runs, tags, 1)
       IN  /\ checked_tagged_running' = tagged
           /\ skipped_untagged' = Len(running_flow_runs) - tagged
           /\ result' = ReconcileResult(FALSE, Len(running_flow_runs), tagged, 0,
                                        Len(running_flow_runs) - tagged, 0)
    /\ pc' = "returned"
    /\ UNCHANGED <<tags, state, pass, limit, canfar_ok, running_canfar_sessions,
                   running_flow_runs, idx, missing_or_not_running, failed_marked,
                   history>>
    /\ UNCHANGED aux

\* lines 156-160: a flow-run without session id is skipped
SkipUntagged ==
    /\ pc = "reconcile"
    /\ idx <= Len(running_flow_runs)
    /\ extract_session_id_from_tags(tags[running_flow_runs[idx]]) = NoneVal
    /\ skipped_untagged' = skipped_untagged + 1
    /\ idx' = idx + 1
    /\ UNCHANGED <<tags, state, pc, pass, limit, canfar_ok, running_canfar_sessions,
                   running_flow_runs, checked_tagged_running, missing_or_not_running,
                   failed_marked, result, history>>
    /\ UNCHANGED aux

\* lines 162-164: the session of a tagged flow-run is in the running set
CheckPresent ==
    /\ pc = "reconcile"
    /\ idx <= Len(running_flow_runs)
    /\ LET fr == running_flow_runs[idx]
           session_id == extract_session_id_from_tags(tags[fr])
       IN  /\ session_id # NoneVal
           /\ ~ session_missing(session_id, running_canfar_sessions)
           /\ misses' = [misses EXCEPT ![fr] = 0]
    /\ checked_tagged_running' = checked_tagged_running + 1
    /\ idx' = idx + 1
    /\ UNCHANGED <<tags, state, pc, pass, limit, canfar_ok, running_canfar_sessions,
                   running_flow_runs, skipped_untagged, missing_or_not_running,
                   failed_marked, result, fetch_raised, issued, applied_total,
                   write_pre, error>>
    /\ UNCHANGED aux

\* lines 162-171: the session is missing and the flow-run is marked FAILED
FailMissing ==
    /\ pc = "reconcile"
    /\ idx <= Len(running_flow_runs)
    /\ LET fr == running_flow_runs[idx]
           session_id == extract_session_id_from_tags(tags[fr])
       IN  /\ session_id # NoneVal
           /\ session_missing(session_id, running_canfar_sessions)
           /\ state' = fail_flow_run(state, fr)
           /\ issued' = [issued EXCEPT ![fr] = @ + 1]
           /\ applied_total' = [applied_total EXCEPT ![fr] = @ + 1]
           /\ write_pre' = [write_pre EXCEPT ![fr] = state[fr]]
           /\ misses' = [misses EXCEPT ![fr] = @ + 1]
    /\ checked_tagged_running' = checked_tagged_running + 1
    /\ missing_or_not_running' = missing_or_not_running + 1
    /\ failed_marked' = failed_marked + 1
    /\ idx' = idx + 1
    /\ UNCHANGED <<tags, pc, pass, limit, canfar_ok, running_canfar_sessions,
                   running_flow_runs, skipped_untagged, result, fetch_raised, error>>
    /\ UNCHANGED aux

\* lines 162-170, were the writes of the pass undone when _fail_flow_run raises
FailMissingRaisesRollsBack ==
    /\ pc = "reconcile"
    /\ idx <= Len(running_flow_runs)
    /\ LET fr == running_flow_runs[idx]
           session_id == extract_session_id_from_tags(tags[fr])
       IN  /\ session_id # NoneVal
           /\ session_missing(session_id, running_canfar_sessions)
           /\ state' = [r \in Recs |-> IF issued[r] > 0 THEN "Running" ELSE state[r]]
           /\ issued' = [issued EXCEPT ![fr] = @ + 1]
           /\ write_pre' = [write_pre EXCEPT ![fr] = state[fr]]
           /\ misses' = [misses EXCEPT ![fr] = @ + 1]
    /\ checked_tagged_running' = checked_tagged_running + 1
    /\ missing_or_not_running' = missing_or_not_running + 1
    /\ pc' = "raised"
    /\ error' = "set_flow_run_state"
    /\ UNCHANGED <<tags, pass, limit, canfar_ok, running_canfar_sessions,
                   running_flow_runs, idx, skipped_untagged, failed_marked, result,
                   fetch_raised, applied_total>>
    /\ UNCHANGED aux

\* lines 162-170: the session is missing and _fail_flow_run raises; the
\* write may or may not have reached Prefect
FailMissingRaises ==
    /\ pc = "reconcile"
    /\ idx <= Len(running_flow_runs)
    /\ LET fr == running_flow_runs[idx]
           session_id == extract_session_id_from_tags(tags[fr])
       IN  /\ session_id # NoneVal
           /\ session_missing(session_id, running_canfar_sessions)
           /\ \E reached \in BOOLEAN :
                /\ state' = IF reached THEN fail_flow_run(state, fr) ELSE state
                /\ applied_total' =
                      [applied_total EXCEPT ![fr] = IF reached THEN @ + 1 ELSE @]
           /\ issued' = [issued EXCEPT ![fr] = @ + 1]
           /\ write_pre' = [write_pre EXCEPT ![fr] = state[fr]]
           /\ misses' = [misses EXCEPT ![fr] = @ + 1]
    /\ checked_tagged_running' = checked_tagged_running + 1
    /\ missing_or_not_running' = missing_or_not_running + 1
    /\ pc' = "raised"
    /\ error' = "set_flow_run_state"
    /\ UNCHANGED <<tags, pass, limit, canfar_ok, running_canfar_sessions,
                   running_flow_runs, idx, skipped_untagged, failed_marked, result,
                   fetch_raised>>
    /\ UNCHANGED aux

\* lines 173-188: the loop is over and the result is returned
Return ==
    /\ pc = "reconcile"
    /\ idx > Len(running_flow_runs)
    /\ result' = ReconcileResult(TRUE, Len(running_flow_runs), checked_tagged_running,
                                 failed_marked, skipped_untagged,
                                 missing_or_not_running)
    /\ pc' = "returned"
    /\ UNCHANGED <<tags, state, pass, limit, locals, history>>
    /\ UNCHANGED aux

\* The caller runs the next pass (sequentially).
NextPass ==
    /\ pc \in {"returned", "raised"}
    /\ pass < MaxPasses
    /\ pass' = pass + 1
    /\ limit' \in 1..NRec
    /\ pc' = "fetch_canfar"
    /\ canfar_ok' = FALSE
    /\ running_canfar_sessions' = {}
    /\ running_flow_runs' = <<>>
    /\ idx' = 1
    /\ skipped_untagged' = 0
    /\ checked_tagged_running' = 0
    /\ missing_or_not_running' = 0
    /\ failed_marked' = 0
    /\ result' = NoResult
    /\ fetch_raised' = FALSE
    /\ error' = "none"
    /\ issued' = [r \in Recs |-> 0]
    /\ UNCHANGED <<tags, state, applied_total, write_pre, misses>>
    /\ UNCHANGED aux

\* Prefect itself advances a flow-run: Scheduled -> Running -> Completed.
PrefectAdvance ==
    \E r \in Recs :
        /\ state[r] \in {"Scheduled", "Running"}
        /\ state' = [state EXCEPT ![r] = IF state[r] = "Scheduled" THEN "Running"
                                          ELSE "Completed"]
        /\ UNCHANGED <<tags, pc, pass, limit, locals, result, history>>
        /\ UNCHANGED aux

Next ==
    \/ FetchCanfar
    \/ FetchCanfarRaises
    \/ FetchPrefect
    \/ FetchPrefectRaises
    \/ OutageReturn
    \/ SkipUntagged
    \/ CheckPresent
    \/ FailMissing
    \/ FailMissingRaises
    \/ Return
    \/ NextPass
    \/ PrefectAdvance

Spec == Init /\ [][Next]_vars

\* ---------------------------------------------------------- main_flow
\* The 1D launch flow: the reconciliation task, then launch_session
\* (possum_pipeline_control/launch_1Dpipeline_PartialTiles_band1.py).

\* limit of reconcile_running_prefect_with_canfar_task when called without one
DEFAULT_LIMIT == 200

\* line 69: main_flow has called the reconciliation task
FlowInit ==
    /\ flow_pc = "reconcile"
    /\ flow_launches = 0
    /\ tags \in [Recs -> TagLists]
    /\ state \in [Recs -> {"Scheduled", "Running"}]
    /\ pc = "fetch_canfar"
    /\ pass = 1
    /\ limit = DEFAULT_LIMIT
    /\ canfar_ok = FALSE
    /\ running_canfar_sessions = {}
    /\ running_flow_runs = <<>>
    /\ idx = 1
    /\ skipped_untagged = 0
    /\ checked_tagged_running = 0
    /\ missing_or_not_running = 0
    /\ failed_marked = 0
    /\ result = NoResult
    /\ fetch_raised = FALSE
    /\ issued = [r \in Recs |-> 0]
    /\ applied_total = [r \in Recs |-> 0]
    /\ write_pre = [r \in Recs |-> NeverWritten]
    /\ misses = [r \in Recs |-> 0]
    /\ error = "none"
    /\ dpc = "off"
    /\ d_listing = [x \in RawIds |-> NotOpen]
    /\ d_tags = <<>>
    /\ d_running = {}
    /\ d_session_id = NoneVal
    /\ d_outcome = "none"
    /\ SupOff
    /\ FrameOff
    /\ ConcOff

\* lines 69-74: the task has returned its summary; launch_session is called
FlowLaunch ==
    /\ flow_pc = "reconcile"
    /\ pc = "returned"
    /\ flow_launches' = flow_launches + 1
    /\ flow_pc' = "done"
    /\ UNCHANGED <<rvars, dvars, svars, fvars, cvars>>

\* lines 72-74: launch_session raises (session.create fails)
FlowLaunchRaises ==
    /\ flow_pc = "reconcile"
    /\ pc = "returned"
    /\ flow_launches' = flow_launches + 1
    /\ flow_pc' = "raised"
    /\ UNCHANGED <<rvars, dvars, svars, fvars, cvars>>

\* line 69, were the failure of the task ignored and the job launched
FlowReconcileRaisesIgnored ==
    /\ flow_pc = "reconcile"
    /\ pc = "raised"
    /\ flow_launches' = flow_launches + 1
    /\ flow_pc' = "done"
    /\ UNCHANGED <<rvars, dvars, svars, fvars, cvars>>

\* line 69: the task raised; the exception leaves main_flow
FlowReconcileRaises ==
    /\ flow_pc = "reconcile"
    /\ pc = "raised"
    /\ flow_pc' = "raised"
    /\ UNCHANGED <<flow_launches, rvars, dvars, svars, fvars, cvars>>

FlowNext ==
    \/ FetchCanfar
    \/ FetchCanfarRaises
    \/ FetchPrefect
    \/ FetchPrefectRaises
    \/ OutageReturn
    \/ SkipUntagged
    \/ CheckPresent
    \/ FailMissing
    \/ FailMissingRaises
    \/ Return
    \/ PrefectAdvance
    \/ FlowLaunch
    \/ FlowLaunchRaises
    \/ FlowReconcileRaises

SpecFlow == FlowInit /\ [][FlowNext]_vars

\* ------------------------------------------- the decision for one flow-run
\* One tagged-or-not flow-run and one session listing, taken through the
\* lines of the pass that decide its fate.

RawSid2 == <<" ">> \o Sid2

DecideTagLists ==
    TagLists \cup
    { <<>>,
      <<TagS1, TagS2Padded>>,
      <<TAG_PREFIX, TagS2Padded>>,
      <<TagOther, TagOther>>,
      <<NoneVal, TagS1>> }

DecideInit ==
    /\ dpc = "start"
    /\ d_listing \in Listings
    /\ d_tags \in DecideTagLists
    /\ d_running = {}
    /\ d_session_id = NoneVal
    /\ d_outcome = "none"
    \* no pass is running
    /\ tags = [r \in Recs |-> <<>>]
    /\ state = [r \in Recs |-> "Completed"]
    /\ pc = "off"
    /\ pass = 1
    /\ limit = 1
    /\ canfar_ok = FALSE
    /\ running_canfar_sessions = {}
    /\ running_flow_runs = <<>>
    /\ idx = 1
    /\ skipped_untagged = 0
    /\ checked_tagged_running = 0
    /\ missing_or_not_running = 0
    /\ failed_marked = 0
    /\ result = NoResult
    /\ fetch_raised = FALSE
    /\ issued = [r \in Recs |-> 0]
    /\ applied_total = [r \in Recs |-> 0]
    /\ write_pre = [r \in Recs |-> NeverWritten]
    /\ misses = [r \in Recs |-> 0]
    /\ error = "none"
    /\ SupOff
    /\ FlowOff
    /\ FrameOff
    /\ ConcOff

\* lines 119-120
DecideBuild ==
    /\ dpc = "start"
    /\ d_running' = build_running_canfar_session_set(get_open_sessions(d_listing))
    /\ dpc' = "built"
    /\ UNCHANGED <<d_listing, d_tags, d_session_id, d_outcome, rvars, svars, others>>

\* line 157
DecideExtract ==
    /\ dpc = "built"
    /\ d_session_id' = extract_session_id_from_tags(d_tags)
    /\ dpc' = "extracted"
    /\ UNCHANGED <<d_listing, d_tags, d_running, d_outcome, rvars, svars, others>>

\* lines 158-171
DecideOutcome ==
    /\ dpc = "extracted"
    /\ d_outcome' = IF d_session_id = NoneVal THEN "skipped"
                    ELSE IF session_missing(d_session_id, d_running) THEN "failed"
                    ELSE "kept"
    /\ dpc' = "decided"
    /\ UNCHANGED <<d_listing, d_tags, d_running, d_session_id, rvars, svars, others>>

DecideNext ==
    \/ DecideBuild
    \/ DecideExtract
    \/ DecideOutcome

SpecDecide == DecideInit /\ [][DecideNext]_vars

\* ------------------------------------------------- passes side by side
\* Passes of reconcile_running_prefect_with_canfar that share Prefect and a
\* CANFAR whose sessions come and go.  Nothing in the code keeps two
\* invocations apart; each runs lines 117-188 on its own locals.

ConcSids == {Sid1, Sid2}

\* Flow-run 1 carries the tag of s1; the others carry a padded tag of s2, or
\* no session tag.
ConcTagConfigs ==
    { [r \in Recs |-> IF r = 1 THEN <<TagS1>> ELSE <<TagOther, TagS2Padded>>],
      [r \in Recs |-> IF r = 1 THEN <<TagS1>> ELSE <<TagOther>>] }

\* session.fetch(): what CANFAR lists when the sessions of dir are running
ListingOf(dir) ==
    [x \in RawIds |-> IF Strip(x) \in dir THEN StRunning ELSE NotOpen]

\* The running set a pass would build from CANFAR as it is now.
RunningNow == build_running_canfar_session_set(get_open_sessions(ListingOf(directory)))

ZeroCounts == [skipped |-> 0, checked |-> 0, missing |-> 0, failed |-> 0]

\* Everything the side-by-side passes leave alone but Prefect's states.
c_rest == <<tags, pc, pass, limit, locals, result, history, dvars, svars, mvars, fvars>>

\* lines 118-121
CFetchCanfar(p) ==
    /\ c_pc[p] = "fetch_canfar"
    /\ c_running' = [c_running EXCEPT ![p] = RunningNow]
    /\ c_canfar_ok' = [c_canfar_ok EXCEPT ![p] = TRUE]
    /\ c_pc' = [c_pc EXCEPT ![p] = "fetch_prefect"]
    /\ UNCHANGED <<directory, c_frs, c_idx, c_counts, c_result, c_issued, c_live>>
    /\ UNCHANGED <<state, c_rest>>

\* lines 122-125
CFetchCanfarRaises(p) ==
    /\ c_pc[p] = "fetch_canfar"
    /\ c_running' = [c_running EXCEPT ![p] = {}]
    /\ c_canfar_ok' = [c_canfar_ok EXCEPT ![p] = canfar_ok_on_exception]
    /\ c_pc' = [c_pc EXCEPT ![p] = "fetch_prefect"]
    /\ UNCHANGED <<directory, c_frs, c_idx, c_counts, c_result, c_issued, c_live>>
    /\ UNCHANGED <<state, c_rest>>

\* lines 128-135
CFetchPrefect(p) ==
    /\ c_pc[p] = "fetch_prefect"
    /\ c_frs' = [c_frs EXCEPT ![p] = fetch_prefect_running_flow_runs(state, DEFAULT_LIMIT)]
    /\ c_pc' = [c_pc EXCEPT ![p] = IF c_canfar_ok[p] THEN "reconcile" ELSE "outage"]
    /\ UNCHANGED <<directory, c_canfar_ok, c_running, c_idx, c_counts, c_result,
                   c_issued, c_live>>
    /\ UNCHANGED <<state, c_rest>>

\* lines 135-153
COutageReturn(p) ==
    /\ c_pc[p] = "outage"
    /\ LET tagged == CountTagged(c_frs[p], tags, 1)
           n == Len(c_frs[p])
       IN  /\ c_counts' = [c_counts EXCEPT ![p] =
                               [skipped |-> n - tagged, checked |-> tagged,
                                missing |-> 0, failed |-> 0]]
           /\ c_result' = [c_result EXCEPT ![p] =
                               ReconcileResult(FALSE, n, tagged, 0, n - tagged, 0)]
    /\ c_pc' = [c_pc EXCEPT ![p] = "returned"]
    /\ UNCHANGED <<directory, c_canfar_ok, c_running, c_frs, c_idx, c_issued, c_live>>
    /\ UNCHANGED <<state, c_rest>>

\* lines 156-160
CSkipUntagged(p) ==
    /\ c_pc[p] = "reconcile"
    /\ c_idx[p] <= Len(c_frs[p])
    /\ extract_session_id_from_tags(tags[c_frs[p][c_idx[p]]]) = NoneVal
    /\ c_counts' = [c_counts EXCEPT ![p].skipped = @ + 1]
    /\ c_idx' = [c_idx EXCEPT ![p] = @ + 1]
    /\ UNCHANGED <<directory, c_pc, c_canfar_ok, c_running, c_frs, c_result,
                   c_issued, c_live>>
    /\ UNCHANGED <<state, c_rest>>

\* lines 162-164
CCheckPresent(p) ==
    /\ c_pc[p] = "reconcile"
    /\ c_idx[p] <= Len(c_frs[p])
    /\ LET session_id == extract_session_id_from_tags(tags[c_frs[p][c_idx[p]]])
       IN  /\ session_id # NoneVal
           /\ ~ session_missing(session_id, c_running[p])
    /\ c_counts' = [c_counts EXCEPT ![p].checked = @ + 1]
    /\ c_idx' = [c_idx EXCEPT ![p] = @ + 1]
    /\ UNCHANGED <<directory, c_pc, c_canfar_ok, c_running, c_frs, c_result,
                   c_issued, c_live>>
    /\ UNCHANGED <<state, c_rest>>

\* lines 162-171, were the flow-run read again and written only if still RUNNING
CFailMissingRechecksState(p) ==
    /\ c_pc[p] = "reconcile"
    /\ c_idx[p] <= Len(c_frs[p])
    /\ LET fr == c_frs[p][c_idx[p]]
           session_id == extract_session_id_from_tags(tags[fr])
           write == state[fr] = "Running"
       IN  /\ session_id # NoneVal
           /\ session_missing(session_id, c_running[p])
           /\ state' = IF write THEN fail_flow_run(state, fr) ELSE state
           /\ c_issued' = [c_issued EXCEPT ![p][fr] = IF write THEN @ + 1 ELSE @]
           /\ c_live' = [c_live EXCEPT ![p][fr] = IF write THEN (IF session_id \in RunningNow THEN "live" ELSE "gone")
                                                  ELSE @]
           /\ c_counts' = [c_counts EXCEPT ![p].checked = @ + 1,
                                           ![p].missing = @ + 1,
                                           ![p].failed = IF write THEN @ + 1 ELSE @]
    /\ c_idx' = [c_idx EXCEPT ![p] = @ + 1]
    /\ UNCHANGED <<directory, c_pc, c_canfar_ok, c_running, c_frs, c_result>>
    /\ UNCHANGED c_rest

\* lines 162-171, were CANFAR asked again before the write
CFailMissingRequeries(p) ==
    /\ c_pc[p] = "reconcile"
    /\ c_idx[p] <= Len(c_frs[p])
    /\ LET fr == c_frs[p][c_idx[p]]
           session_id == extract_session_id_from_tags(tags[fr])
           write == session_missing(session_id, RunningNow)
       IN  /\ session_id # NoneVal
           /\ session_missing(session_id, c_running[p])
           /\ state' = IF write THEN fail_flow_run(state, fr) ELSE state
           /\ c_issued' = [c_issued EXCEPT ![p][fr] = IF write THEN @ + 1 ELSE @]
           /\ c_live' = [c_live EXCEPT ![p][fr] = IF write THEN (IF session_id \in RunningNow THEN "live" ELSE "gone")
                                                  ELSE @]
           /\ c_counts' = [c_counts EXCEPT ![p].checked = @ + 1,
                                           ![p].missing = IF write THEN @ + 1 ELSE @,
                                           ![p].failed = IF write THEN @ + 1 ELSE @]
    /\ c_idx' = [c_idx EXCEPT ![p] = @ + 1]
    /\ UNCHANGED <<directory, c_pc, c_canfar_ok, c_running, c_frs, c_result>>
    /\ UNCHANGED c_rest

\* lines 162-171: the session is not in the set built at line 120
CFailMissing(p) ==
    /\ c_pc[p] = "reconcile"
    /\ c_idx[p] <= Len(c_frs[p])
    /\ LET fr == c_frs[p][c_idx[p]]
           session_id == extract_session_id_from_tags(tags[fr])
       IN  /\ session_id # NoneVal
           /\ session_missing(session_id, c_running[p])
           /\ state' = fail_flow_run(state, fr)
           /\ c_issued' = [c_issued EXCEPT ![p][fr] = @ + 1]
           /\ c_live' = [c_live EXCEPT ![p][fr] =
                                    IF session_id \in RunningNow THEN "live" ELSE "gone"]
           /\ c_counts' = [c_counts EXCEPT ![p].checked = @ + 1,
                                           ![p].missing = @ + 1,
                                           ![p].failed = @ + 1]
    /\ c_idx' = [c_idx EXCEPT ![p] = @ + 1]
    /\ UNCHANGED <<directory, c_pc, c_canfar_ok, c_running, c_frs, c_result>>
    /\ UNCHANGED c_rest

\* lines 173-188
CReturn(p) ==
    /\ c_pc[p] = "reconcile"
    /\ c_idx[p] > Len(c_frs[p])
    /\ c_result' = [c_result EXCEPT ![p] =
                        ReconcileResult(TRUE, Len(c_frs[p]), c_counts[p].checked,
                                        c_counts[p].failed, c_counts[p].skipped,
                                        c_counts[p].missing)]
    /\ c_pc' = [c_pc EXCEPT ![p] = "returned"]
    /\ UNCHANGED <<directory, c_canfar_ok, c_running, c_frs, c_idx, c_counts,
                   c_issued, c_live>>
    /\ UNCHANGED <<state, c_rest>>

\* A CANFAR session starts running, or stops.
DirectoryChange ==
    \E sid \in ConcSids :
        /\ directory' = IF sid \in directory THEN directory \ {sid}
                                             ELSE directory \cup {sid}
        /\ UNCHANGED <<c_pc, c_canfar_ok, c_running, c_frs, c_idx, c_counts,
                       c_result, c_issued, c_live>>
        /\ UNCHANGED <<state, c_rest>>

\* The statements of pass p.
CPass(p) ==
    \/ CFetchCanfar(p)
    \/ CFetchCanfarRaises(p)
    \/ CFetchPrefect(p)
    \/ COutageReturn(p)
    \/ CSkipUntagged(p)
    \/ CCheckPresent(p)
    \/ CFailMissing(p)
    \/ CReturn(p)

\* Two passes started by two callers, both at line 117.
ConcInit ==
    /\ directory \in SUBSET ConcSids
    /\ c_pc = [p \in ConcPasses |-> "fetch_canfar"]
    /\ c_canfar_ok = [p \in ConcPasses |-> FALSE]
    /\ c_running = [p \in ConcPasses |-> {}]
    /\ c_frs = [p \in ConcPasses |-> <<>>]
    /\ c_idx = [p \in ConcPasses |-> 1]
    /\ c_counts = [p \in ConcPasses |-> ZeroCounts]
    /\ c_result = [p \in ConcPasses |-> NoResult]
    /\ c_issued = [p \in ConcPasses |-> [r \in Recs |-> 0]]
    /\ c_live = [p \in ConcPasses |-> [r \in Recs |-> "none"]]
    /\ tags \in ConcTagConfigs
    /\ state \in [Recs -> {"Scheduled", "Running"}]
    /\ pc = "off"
    /\ pass = 1
    /\ limit = 1
    /\ canfar_ok = FALSE
    /\ running_canfar_sessions = {}
    /\ running_flow_runs = <<>>
    /\ idx = 1
    /\ skipped_untagged = 0
    /\ checked_tagged_running = 0
    /\ missing_or_not_running = 0
    /\ failed_marked = 0
    /\ result = NoResult
    /\ fetch_raised = FALSE
    /\ issued = [r \in Recs |-> 0]
    /\ applied_total = [r \in Recs |-> 0]
    /\ write_pre = [r \in Recs |-> NeverWritten]
    /\ misses = [r \in Recs |-> 0]
    /\ error = "none"
    /\ dpc = "off"
    /\ d_listing = [x \in RawIds |-> NotOpen]
    /\ d_tags = <<>>
    /\ d_running = {}
    /\ d_session_id = NoneVal
    /\ d_outcome = "none"
    /\ SupOff
    /\ FlowOff
    /\ FrameOff

\* Each pass runs at its own pace, while CANFAR and Prefect go on changing.
ConcNext ==
    \/ \E p \in ConcPasses : CPass(p)
    \/ DirectoryChange
    \/ PrefectAdvance

SpecConc == ConcInit /\ [][ConcNext]_vars

\* ------------------------------------------------- a frame, any frame
\* build_running_canfar_session_set on the frames get_open_sessions gives and
\* on frames that lack a column, followed by the decision for one flow-run.

\* df without the column c
WithoutColumn(df, c) ==
    [columns |-> df.columns \ {c},
     rows |-> { [k \in (DOMAIN row) \ {c} |-> row[k]] : row \in df.rows }]

FrameInputs ==
    SessionFrames \cup
    { WithoutColumn(df, c) : df \in SessionFrames \ {EmptyFrame}, c \in {"status", "id"} }

FrameInit ==
    /\ dpc = "frame"
    /\ session_df \in FrameInputs
    /\ d_tags \in DecideTagLists
    /\ d_listing = [x \in RawIds |-> NotOpen]
    /\ d_running = {}
    /\ d_session_id = NoneVal
    /\ d_outcome = "none"
    \* the pass is at line 118
    /\ tags = [r \in Recs |-> <<>>]
    /\ state = [r \in Recs |-> "Completed"]
    /\ pc = "off"
    /\ pass = 1
    /\ limit = 1
    /\ canfar_ok = FALSE
    /\ running_canfar_sessions = {}
    /\ running_flow_runs = <<>>
    /\ idx = 1
    /\ skipped_untagged = 0
    /\ checked_tagged_running = 0
    /\ missing_or_not_running = 0
    /\ failed_marked = 0
    /\ result = NoResult
    /\ fetch_raised = FALSE
    /\ issued = [r \in Recs |-> 0]
    /\ applied_total = [r \in Recs |-> 0]
    /\ write_pre = [r \in Recs |-> NeverWritten]
    /\ misses = [r \in Recs |-> 0]
    /\ error = "none"
    /\ SupOff
    /\ FlowOff
    /\ ConcOff

\* lines 118-121, were a frame with no rows or lacking a column taken for an outage
FrameBuildOutageOnEmpty ==
    /\ dpc = "frame"
    /\ d_running' = build_running_canfar_session_set(session_df)
    /\ canfar_ok' = (Cardinality(session_df.rows) # 0
                        /\ {"status", "id"} \subseteq session_df.columns)
    /\ dpc' = "built"
    /\ UNCHANGED <<tags, state, pc, pass, limit, running_canfar_sessions,
                   running_flow_runs, idx, counters, result, history>>
    /\ UNCHANGED <<d_listing, d_tags, d_session_id, d_outcome, svars, others>>

\* lines 118-121: the set is built from the frame and canfar_ok set
FrameBuild ==
    /\ dpc = "frame"
    /\ d_running' = build_running_canfar_session_set(session_df)
    /\ canfar_ok' = TRUE
    /\ dpc' = "built"
    /\ UNCHANGED <<tags, state, pc, pass, limit, running_canfar_sessions,
                   running_flow_runs, idx, counters, result, history>>
    /\ UNCHANGED <<d_listing, d_tags, d_session_id, d_outcome, svars, others>>

FrameNext ==
    \/ FrameBuild
    \/ DecideExtract
    \/ DecideOutcome

SpecFrame == FrameInit /\ [][FrameNext]_vars

\* ---------------------------------------- run_canfar_task_with_polling
\* One call of the task: launch, poll until the session stops, fetch its
\* logs, retry on failure (automation/canfar_wrapper.py).

\* Status polls modelled per attempt.
MaxPolls == 3

\* Launches after which the model stops (never reached by the code).
LaunchCap == MAX_RETRY + 3

\* The id of the session the n-th launch submits.
SessionIdOf(n) == <<"s", n>>

\* What CANFAR reports of a session; NotOpen: deleted or expired.
\* The status is a free string: spellings the code does not list.
St_completed == <<"c","o","m","p","l","e","t","e","d">>
St_FAILED == <<"F","A","I","L","E","D">>
StUnknown == <<"U","n","k","n","o","w","n">>
UnlistedStatuses == { St_completed, St_FAILED, StUnknown }

RemoteStatuses ==
    { StPending, StRunning, StTerminating, StSucceeded, StCompleted, StError,
      StFailed, NotOpen } \cup UnlistedStatuses
RemoteNonTerminal == { StPending, StRunning, StTerminating }

\* What session.logs(session_id).get(session_id) gives.
LogValues == { <<"l","o","g">>, <<>>, NoneVal }

\* What launch_fn gives when it submits no session.
FalsyValues == { <<>>, NoneVal }

\* the loop test, were it off by one either way
loop_continues_once_more(rc) == rc <= MAX_RETRY + 1
loop_continues_once_less(rc) == rc < MAX_RETRY

\* line 29: while retry_count <= MAX_RETRY
loop_continues(rc) == rc <= MAX_RETRY

\* line 39: if session_id
Truthy(x) == x # <<>> /\ x # NoneVal

\* get_session_status, were the emptiness test inverted
get_session_status_inverted(rem, sid) ==
    IF rem[sid[2]] # NotOpen THEN NoneVal ELSE rem[sid[2]]

\* get_session_status
get_session_status(rem, sid) ==
    IF rem[sid[2]] = NotOpen THEN NoneVal ELSE rem[sid[2]]

\* line 75, were "Terminating" taken for a final status
poll_ends_on_terminating(st) ==
    st \in { StCompleted, StSucceeded, StError, StFailed, NoneVal, StTerminating }

\* line 75, were the comparison to ignore case
poll_ends_ignoring_case(st) ==
    \/ st = NoneVal
    \/ Lower(st) \in { Lower(StCompleted), Lower(StSucceeded), Lower(StError), Lower(StFailed) }

\* line 75: the statuses that end poll_canfar
poll_ends(st) == st \in { StCompleted, StSucceeded, StError, StFailed, NoneVal }

\* line 46, were "Succeeded" forgotten
is_success_completed_only(st) == st \in { StCompleted }

\* line 46: the statuses on which the task returns
is_success(st) == st \in { StCompleted, StSucceeded }

SupInit ==
    /\ spc = "while"
    /\ retry_count = 0
    /\ sup_session_id = <<>>
    /\ status = <<"unset">>
    /\ logs_dict = <<"unset">>
    /\ remote = <<>>
    /\ launches = 0
    /\ log_calls = 0
    /\ logged = {}
    /\ polls = 0
    /\ sleeps = 0
    /\ hist = <<>>
    /\ sup_error = "none"
    /\ sup_message = NoMessage
    \* no pass is running, no decision is taken
    /\ tags = [r \in Recs |-> <<>>]
    /\ state = [r \in Recs |-> "Completed"]
    /\ pc = "off"
    /\ pass = 1
    /\ limit = 1
    /\ canfar_ok = FALSE
    /\ running_canfar_sessions = {}
    /\ running_flow_runs = <<>>
    /\ idx = 1
    /\ skipped_untagged = 0
    /\ checked_tagged_running = 0
    /\ missing_or_not_running = 0
    /\ failed_marked = 0
    /\ result = NoResult
    /\ fetch_raised = FALSE
    /\ issued = [r \in Recs |-> 0]
    /\ applied_total = [r \in Recs |-> 0]
    /\ write_pre = [r \in Recs |-> NeverWritten]
    /\ misses = [r \in Recs |-> 0]
    /\ error = "none"
    /\ dpc = "off"
    /\ d_listing = [x \in RawIds |-> NotOpen]
    /\ d_tags = <<>>
    /\ d_running = {}
    /\ d_session_id = NoneVal
    /\ d_outcome = "none"
    /\ FlowOff
    /\ FrameOff
    /\ ConcOff

\* lines 29-33, were session_id not reset at line 33
WhileEnterKeepsId ==
    /\ spc = "while"
    /\ loop_continues(retry_count)
    /\ spc' = "launch"
    /\ UNCHANGED <<retry_count, sup_session_id, status, logs_dict, remote, launches,
                   log_calls, logged, polls, sleeps, hist, sup_error, sup_message>>
    /\ UNCHANGED <<rvars, dvars, others>>

\* lines 29-33: the loop goes round once more
WhileEnter ==
    /\ spc = "while"
    /\ loop_continues(retry_count)
    /\ sup_session_id' = <<>>
    /\ spc' = "launch"
    /\ UNCHANGED <<retry_count, status, logs_dict, remote, launches, log_calls,
                   logged, polls, sleeps, hist, sup_error, sup_message>>
    /\ UNCHANGED <<rvars, dvars, others>>

\* lines 29, 51, were the message to count the attempts made
ExhaustedCountsAttempts ==
    /\ spc = "while"
    /\ ~ loop_continues(retry_count)
    /\ spc' = "exhausted"
    /\ sup_error' = "RuntimeError"
    /\ sup_message' = retry_count
    /\ UNCHANGED <<retry_count, sup_session_id, status, logs_dict, remote,
                   launches, log_calls, logged, polls, sleeps, hist>>
    /\ UNCHANGED <<rvars, dvars, others>>

\* lines 29, 51: the loop is left and RuntimeError raised
Exhausted ==
    /\ spc = "while"
    /\ ~ loop_continues(retry_count)
    /\ spc' = "exhausted"
    /\ sup_error' = "RuntimeError"
    /\ sup_message' = MAX_RETRY
    /\ UNCHANGED <<retry_count, sup_session_id, status, logs_dict, remote,
                   launches, log_calls, logged, polls, sleeps, hist>>
    /\ UNCHANGED <<rvars, dvars, others>>

\* line 35: launch_fn submits a session and returns its id
LaunchReturnsId ==
    /\ spc = "launch"
    /\ launches < LaunchCap
    /\ launches' = launches + 1
    /\ remote' = Append(remote, StPending)
    /\ sup_session_id' = SessionIdOf(Len(remote) + 1)
    /\ hist' = Append(hist, [launch |-> "id", sid |-> SessionIdOf(Len(remote) + 1),
                             final |-> <<"unset">>])
    /\ spc' = "if_session"
    /\ UNCHANGED <<retry_count, status, logs_dict, log_calls, logged, polls,
                   sleeps, sup_error, sup_message>>
    /\ UNCHANGED <<rvars, dvars, others>>

\* line 35: launch_fn returns no session id
LaunchReturnsFalsy ==
    /\ spc = "launch"
    /\ launches < LaunchCap
    /\ launches' = launches + 1
    /\ \E v \in FalsyValues :
          /\ sup_session_id' = v
          /\ hist' = Append(hist, [launch |-> "falsy", sid |-> v, final |-> <<"unset">>])
    /\ spc' = "if_session"
    /\ UNCHANGED <<retry_count, status, logs_dict, remote, log_calls, logged,
                   polls, sleeps, sup_error, sup_message>>
    /\ UNCHANGED <<rvars, dvars, others>>

\* line 35, were the call not in a try block
LaunchRaisesPropagates ==
    /\ spc = "launch"
    /\ launches < LaunchCap
    /\ launches' = launches + 1
    /\ hist' = Append(hist, [launch |-> "raised", sid |-> sup_session_id,
                             final |-> <<"unset">>])
    /\ spc' = "propagated"
    /\ sup_error' = "launch_fn"
    /\ sup_message' = sup_message
    /\ UNCHANGED <<retry_count, sup_session_id, status, logs_dict, remote,
                   log_calls, logged, polls, sleeps>>
    /\ UNCHANGED <<rvars, dvars, others>>

\* lines 35-37: launch_fn raises; the exception is printed
LaunchRaises ==
    /\ spc = "launch"
    /\ launches < LaunchCap
    /\ launches' = launches + 1
    /\ hist' = Append(hist, [launch |-> "raised", sid |-> sup_session_id,
                             final |-> <<"unset">>])
    /\ spc' = "if_session"
    /\ UNCHANGED <<retry_count, sup_session_id, status, logs_dict, remote,
                   log_calls, logged, polls, sleeps, sup_error, sup_message>>
    /\ UNCHANGED <<rvars, dvars, others>>

\* line 39 (the per-attempt poll and sleep counts start afresh)
TestSessionId ==
    /\ spc = "if_session"
    /\ spc' = IF Truthy(sup_session_id) THEN "poll" ELSE "incr"
    /\ polls' = 0
    /\ sleeps' = 0
    /\ UNCHANGED <<retry_count, sup_session_id, status, logs_dict, remote,
                   launches, log_calls, logged, hist, sup_error, sup_message>>
    /\ UNCHANGED <<rvars, dvars, others>>

\* lines 40-46, were the logs not fetched
PollEndsSkipsLogs ==
    /\ spc = "poll"
    /\ poll_ends(get_session_status(remote, sup_session_id))
    /\ status' = get_session_status(remote, sup_session_id)
    /\ polls' = polls + 1
    /\ spc' = "check"
    /\ UNCHANGED <<retry_count, sup_session_id, logs_dict, remote, launches,
                   log_calls, logged, sleeps, hist, sup_error, sup_message>>
    /\ UNCHANGED <<rvars, dvars, others>>

\* lines 40-46, were the logs fetched for a failed attempt only
PollEndsLogsOnFailure ==
    /\ spc = "poll"
    /\ poll_ends(get_session_status(remote, sup_session_id))
    /\ status' = get_session_status(remote, sup_session_id)
    /\ polls' = polls + 1
    /\ spc' = IF is_success(get_session_status(remote, sup_session_id)) THEN "check" ELSE "logs"
    /\ UNCHANGED <<retry_count, sup_session_id, logs_dict, remote, launches,
                   log_calls, logged, sleeps, hist, sup_error, sup_message>>
    /\ UNCHANGED <<rvars, dvars, others>>

\* lines 69-76: the status polled ends poll_canfar
PollEnds ==
    /\ spc = "poll"
    /\ poll_ends(get_session_status(remote, sup_session_id))
    /\ status' = get_session_status(remote, sup_session_id)
    /\ polls' = polls + 1
    /\ spc' = "logs"
    /\ UNCHANGED <<retry_count, sup_session_id, logs_dict, remote, launches,
                   log_calls, logged, sleeps, hist, sup_error, sup_message>>
    /\ UNCHANGED <<rvars, dvars, others>>

\* lines 69-79: the status polled does not end poll_canfar
PollGoesOn ==
    /\ spc = "poll"
    /\ polls < MaxPolls
    /\ ~ poll_ends(get_session_status(remote, sup_session_id))
    /\ status' = get_session_status(remote, sup_session_id)
    /\ polls' = polls + 1
    /\ spc' = "sleep"
    /\ UNCHANGED <<retry_count, sup_session_id, logs_dict, remote, launches,
                   log_calls, logged, sleeps, hist, sup_error, sup_message>>
    /\ UNCHANGED <<rvars, dvars, others>>

\* line 69: get_session_status raises
PollRaises ==
    /\ spc = "poll"
    /\ spc' = "propagated"
    /\ sup_error' = "get_session_status"
    /\ sup_message' = sup_message
    /\ UNCHANGED <<retry_count, sup_session_id, status, logs_dict, remote,
                   launches, log_calls, logged, polls, sleeps, hist>>
    /\ UNCHANGED <<rvars, dvars, others>>

\* line 79
Sleep ==
    /\ spc = "sleep"
    /\ sleeps' = sleeps + 1
    /\ spc' = "poll"
    /\ UNCHANGED <<retry_count, sup_session_id, status, logs_dict, remote,
                   launches, log_calls, logged, polls, hist, sup_error, sup_message>>
    /\ UNCHANGED <<rvars, dvars, others>>

\* lines 42-43: the logs are fetched and printed
FetchLogs ==
    /\ spc = "logs"
    /\ logs_dict' \in LogValues
    /\ log_calls' = log_calls + 1
    /\ logged' = logged \cup {sup_session_id}
    /\ spc' = "check"
    /\ UNCHANGED <<retry_count, sup_session_id, status, remote, launches,
                   polls, sleeps, hist, sup_error, sup_message>>
    /\ UNCHANGED <<rvars, dvars, others>>

\* line 42, were the exception of session.logs caught and the attempt failed
FetchLogsRaisesCaught ==
    /\ spc = "logs"
    /\ log_calls' = log_calls + 1
    /\ spc' = "incr"
    /\ sup_error' = "logs"
    /\ sup_message' = sup_message
    /\ UNCHANGED <<retry_count, sup_session_id, status, logs_dict, remote,
                   launches, logged, polls, sleeps, hist>>
    /\ UNCHANGED <<rvars, dvars, others>>

\* line 42: session.logs raises
FetchLogsRaises ==
    /\ spc = "logs"
    /\ log_calls' = log_calls + 1
    /\ spc' = "propagated"
    /\ sup_error' = "logs"
    /\ sup_message' = sup_message
    /\ UNCHANGED <<retry_count, sup_session_id, status, logs_dict, remote,
                   launches, logged, polls, sleeps, hist>>
    /\ UNCHANGED <<rvars, dvars, others>>

\* line 46, were the logs to take part in the test
CheckStatusAndLogs ==
    /\ spc = "check"
    /\ spc' = IF is_success(status) /\ Truthy(logs_dict) THEN "returned" ELSE "incr"
    /\ hist' = [hist EXCEPT ![Len(hist)].final = status]
    /\ UNCHANGED <<retry_count, sup_session_id, status, logs_dict, remote,
                   launches, log_calls, logged, polls, sleeps, sup_error, sup_message>>
    /\ UNCHANGED <<rvars, dvars, others>>

\* lines 46-47
CheckStatus ==
    /\ spc = "check"
    /\ spc' = IF is_success(status) THEN "returned" ELSE "incr"
    /\ hist' = [hist EXCEPT ![Len(hist)].final = status]
    /\ UNCHANGED <<retry_count, sup_session_id, status, logs_dict, remote,
                   launches, log_calls, logged, polls, sleeps, sup_error, sup_message>>
    /\ UNCHANGED <<rvars, dvars, others>>

\* line 49, were the counter left as it is
IncrementForgotten ==
    /\ spc = "incr"
    /\ retry_count' = retry_count
    /\ spc' = "while"
    /\ UNCHANGED <<sup_session_id, status, logs_dict, remote, launches,
                   log_calls, logged, polls, sleeps, hist, sup_error, sup_message>>
    /\ UNCHANGED <<rvars, dvars, others>>

\* line 49, were the counter stepped by two
IncrementTwice ==
    /\ spc = "incr"
    /\ retry_count' = retry_count + 2
    /\ spc' = "while"
    /\ UNCHANGED <<sup_session_id, status, logs_dict, remote, launches,
                   log_calls, logged, polls, sleeps, hist, sup_error, sup_message>>
    /\ UNCHANGED <<rvars, dvars, others>>

\* line 49, were a delay inserted before the next attempt
IncrementAfterBackoff ==
    /\ spc = "incr"
    /\ retry_count' = retry_count + 1
    /\ sleeps' = sleeps + 1
    /\ spc' = "while"
    /\ UNCHANGED <<sup_session_id, status, logs_dict, remote, launches,
                   log_calls, logged, polls, hist, sup_error, sup_message>>
    /\ UNCHANGED <<rvars, dvars, others>>

\* line 49
Increment ==
    /\ spc = "incr"
    /\ retry_count' = retry_count + 1
    /\ spc' = "while"
    /\ UNCHANGED <<sup_session_id, status, logs_dict, remote, launches,
                   log_calls, logged, polls, sleeps, hist, sup_error, sup_message>>
    /\ UNCHANGED <<rvars, dvars, others>>

\* CANFAR moves a session on; a session that stopped stays as it is.
RemoteChange ==
    \E n \in 1..Len(remote) :
        /\ remote[n] \in RemoteNonTerminal
        /\ \E st \in RemoteStatuses \ {remote[n]} :
              remote' = [remote EXCEPT ![n] = st]
        /\ UNCHANGED <<spc, retry_count, sup_session_id, status, logs_dict,
                       launches, log_calls, logged, polls, sleeps, hist, sup_error, sup_message>>
        /\ UNCHANGED <<rvars, dvars, others>>

SupNext ==
    \/ WhileEnter
    \/ Exhausted
    \/ LaunchReturnsId
    \/ LaunchReturnsFalsy
    \/ LaunchRaises
    \/ TestSessionId
    \/ PollEnds
    \/ PollGoesOn
    \/ PollRaises
    \/ Sleep
    \/ FetchLogs
    \/ FetchLogsRaises
    \/ CheckStatus
    \/ Increment
    \/ RemoteChange

SpecSup == SupInit /\ [][SupNext]_vars

\* The statements of the task whose calls return (launch_fn may raise: it is
\* caught).  The task is one thread: while it has a next statement, it runs it.
SupReturns ==
    \/ WhileEnter
    \/ Exhausted
    \/ LaunchReturnsId
    \/ LaunchReturnsFalsy
    \/ LaunchRaises
    \/ TestSessionId
    \/ PollEnds
    \/ PollGoesOn
    \/ Sleep
    \/ FetchLogs
    \/ CheckStatus
    \/ Increment

SpecSupFair == SupInit /\ [][SupNext]_vars /\ WF_vars(SupReturns)

\* ------------------------------------------------------------------ claims

\* The flow-runs the pass fetched.
Fetched == { running_flow_runs[k] : k \in 1..Len(running_flow_runs) }

\* The session id each tag list of the catalogue stands for, read off the
\* tags by hand: the first tag with the prefix decides, and a blank id is none.
ExpectedSid(ts) ==
    IF ts \in {<<TagS1>>, <<TagS1, TagS2Padded>>, <<NoneVal, TagS1>>} THEN Sid1
    ELSE IF ts \in {<<TagOther, TagS2Padded>>} THEN Sid2
    ELSE NoneVal

Tagged == { r \in Recs : ExpectedSid(tags[r]) # NoneVal }
Untagged == Recs \ Tagged
\* fetched, tagged, and the session is (not) in the confirmed-running set
Protected == { r \in Fetched \cap Tagged : ExpectedSid(tags[r]) \in running_canfar_sessions }
Missing == { r \in Fetched \cap Tagged : ExpectedSid(tags[r]) \notin running_canfar_sessions }

\* C1: in a pass whose CANFAR fetch raised, no set_failed write is issued,
\* and the result returned has canfar_ok false, failed_marked 0 and
\* missing_or_not_running 0, however many tagged RUNNING flow-runs there are.
C1_OutageFailSafe ==
    fetch_raised =>
        /\ \A r \in Recs : issued[r] = 0
        /\ failed_marked = 0
        /\ pc # "reconcile"
        /\ pc = "returned" =>
              /\ result.canfar_ok = FALSE
              /\ result.failed_marked = 0
              /\ result.missing_or_not_running = 0

C1_Witness ==
    /\ fetch_raised
    /\ pc = "returned"
    /\ result.checked_tagged_running = NRec
    /\ \A r \in Recs : state[r] = "Running"

\* C2 (as claimed): every set_failed write is issued for a flow-run that is
\* RUNNING at the moment of the write.
C2_WritesOnlyRunning ==
    \A r \in Recs : write_pre[r] \in {NeverWritten, "Running"}

\* C3: a set_failed write is issued for a flow-run only if the pass fetched
\* it, it carries a well-formed session tag, the CANFAR fetch succeeded, and
\* its session id is not in the confirmed-running set.
C3_EscalationEligibility ==
    \A r \in Recs :
        issued[r] > 0 =>
            /\ r \in Fetched
            /\ r \in Tagged
            /\ canfar_ok
            /\ ~ fetch_raised
            /\ ExpectedSid(tags[r]) \notin running_canfar_sessions

C3_Witness ==
    /\ pc = "returned"
    /\ \E r \in Recs : issued[r] = 1
    /\ \E r \in Fetched : issued[r] = 0 /\ r \in Protected

\* C4: when a pass with canfar_ok true returns, every fetched tagged flow-run
\* whose session id is not in the confirmed-running set has received exactly
\* one Failed write and is FAILED, and missing_or_not_running = failed_marked
\* = the number of these flow-runs.
C4_ExactlyOneFailed ==
    (pc = "returned" /\ result.canfar_ok) =>
        /\ \A r \in Missing : issued[r] = 1 /\ state[r] = "Failed"
        /\ result.missing_or_not_running = Cardinality(Missing)
        /\ result.failed_marked = Cardinality(Missing)

C4_Witness ==
    /\ pc = "returned"
    /\ result.canfar_ok
    /\ Cardinality(Missing) = NRec
    /\ result.failed_marked = NRec

\* C5: a fetched tagged flow-run whose session id is in the confirmed-running
\* set is never written by the pass, and in the result it counts in
\* checked_tagged_running but not in missing_or_not_running or failed_marked.
C5_ProtectedUntouched ==
    \A r \in Protected :
        /\ issued[r] = 0
        /\ state[r] # "Failed"
        /\ pc = "returned" =>
              /\ result.checked_tagged_running - result.missing_or_not_running
                    = Cardinality(Protected)
              /\ result.checked_tagged_running - result.failed_marked
                    = Cardinality(Protected)

C5_Witness ==
    /\ pc = "returned"
    /\ Cardinality(Protected) = 1
    /\ result.failed_marked = 1
    /\ result.checked_tagged_running = 2

\* C6: a fetched flow-run with no tag matching the prefix, or whose matching
\* tag has a blank id, is never written, and is counted in skipped_untagged,
\* in a normal pass and in an outage pass alike.
C6_UntaggedSkipped ==
    /\ \A r \in Untagged : issued[r] = 0 /\ applied_total[r] = 0 /\ state[r] # "Failed"
    /\ pc = "returned" => result.skipped_untagged = Cardinality(Fetched \cap Untagged)

C6_Witness ==
    /\ pc = "returned"
    /\ result.canfar_ok
    /\ running_canfar_sessions = {}
    /\ \E r \in Fetched : tags[r] = <<TagBlankId, TagS1>>
    /\ \E r \in Fetched : tags[r] = <<TagOther>>
    /\ result.skipped_untagged = 2

\* C8: over sequential passes a flow-run receives at most one Failed write,
\* and a flow-run marked FAILED by an earlier pass is not fetched (nor
\* written) by a later one.
C8_Idempotent ==
    \A r \in Recs :
        /\ applied_total[r] <= 1
        /\ (applied_total[r] = 1 /\ issued[r] = 0) => r \notin Fetched

C8_Witness ==
    /\ pass = 2
    /\ pc = "returned"
    /\ result.canfar_ok
    /\ limit = NRec
    /\ \E r \in Tagged :
          /\ applied_total[r] = 1
          /\ issued[r] = 0
          /\ ExpectedSid(tags[r]) \notin running_canfar_sessions

\* C9: an exception of the Prefect fetch or of the Prefect write leaves
\* reconcile raised, with no ReconcileResult; after a fetch that raised no
\* set_failed write has been issued.  Outage or not.
C9_PrefectErrorsPropagate ==
    /\ error # "none" => (pc = "raised" /\ result = NoResult)
    /\ error = "read_flow_runs" => \A r \in Recs : issued[r] = 0
    /\ pc = "returned" => error = "none"

C9_Witness ==
    /\ error = "set_flow_run_state"
    /\ pc = "raised"
    /\ failed_marked = 1

\* C10 (as claimed): a flow-run is marked FAILED only once its session has
\* been found missing in MAX_RETRY consecutive passes.
C10_ConsecutiveMisses ==
    \A r \in Recs : issued[r] > 0 => misses[r] >= MAX_RETRY

\* C7: the confirmed-running set holds exactly the trimmed, non-blank ids
\* whose status is "running" in any spelling of case; a flow-run whose
\* session is listed with any other status is failed like one whose session
\* is not listed, and one whose session is running in any case is kept.
RunningSpellings == { StRunning, StRUNNING, STR_running }

C7_RunningSetCaseInsensitive ==
    /\ dpc # "start" =>
          /\ d_running \subseteq {Sid1, Sid2}
          /\ Sid1 \in d_running <=> d_listing[Sid1] \in RunningSpellings
          /\ Sid2 \in d_running <=> d_listing[RawSid2] \in RunningSpellings
    /\ (dpc = "decided" /\ ExpectedSid(d_tags) = Sid1) =>
          d_outcome = (IF d_listing[Sid1] \in RunningSpellings THEN "kept" ELSE "failed")
    /\ (dpc = "decided" /\ ExpectedSid(d_tags) = Sid2) =>
          d_outcome = (IF d_listing[RawSid2] \in RunningSpellings THEN "kept" ELSE "failed")

C7_Witness ==
    /\ dpc = "decided"
    /\ d_tags = <<TagOther, TagS2Padded>>
    /\ d_listing[RawSid2] = StTerminating
    /\ d_listing[Sid1] = StRUNNING
    /\ d_listing[<<" ">>] = StRunning
    /\ d_running = {Sid1}
    /\ d_outcome = "failed"

\* --------------------------------------- claims: the supervised task

SuccessFinals == { StCompleted, StSucceeded }
FailFinals == { StError, StFailed, NoneVal }
Unset == <<"unset">>

\* The attempts made so far, the one in progress included.
Attempts == 1..Len(hist)
\* The call is between two attempts, or over.
BetweenAttempts == spc \in {"while", "exhausted"}
\* C11: launch_fn is invoked at most MAX_RETRY + 1 times and the retry
\* counter never exceeds MAX_RETRY + 1, whatever launch_fn and CANFAR do.
C11_RetryBound ==
    /\ launches <= MAX_RETRY + 1
    /\ retry_count <= MAX_RETRY + 1

C11_Witness ==
    /\ spc = "exhausted"
    /\ launches = MAX_RETRY + 1
    /\ retry_count = MAX_RETRY + 1

AllAttemptsFailedRemotely ==
    \A k \in Attempts : hist[k].launch = "id" /\ hist[k].final \in FailFinals

C13_Exhaustion ==
    (BetweenAttempts /\ AllAttemptsFailedRemotely) =>
        /\ launches = Len(hist)
        /\ log_calls = Len(hist)
        /\ Len(hist) <= MAX_RETRY + 1
        /\ spc = "exhausted" <=> (Len(hist) = MAX_RETRY + 1 /\ sup_error = "RuntimeError")
        /\ (spc = "while" /\ Len(hist) = MAX_RETRY + 1) => retry_count > MAX_RETRY

C13_Witness ==
    /\ spc = "exhausted"
    /\ AllAttemptsFailedRemotely
    /\ hist[1].final = StError
    /\ hist[2].final = NoneVal
    /\ hist[3].final = StFailed
    /\ log_calls = 3

\* C14: a launch that raises or gives no session id is not polled, does not
\* end the call, and uses up one attempt; when every launch fails the task
\* raises RuntimeError after exactly MAX_RETRY + 1 launches.
LaunchFailed(k) == hist[k].launch \in {"raised", "falsy"}

C14_FlakyLauncher ==
    /\ \A k \in Attempts :
          LaunchFailed(k) =>
              /\ hist[k].final = Unset
              /\ hist[k].sid \notin logged
              /\ k = Len(hist) =>
                    /\ spc \in {"if_session", "incr", "while", "launch", "exhausted"}
                    /\ retry_count = (IF spc \in {"if_session", "incr"} THEN k - 1 ELSE k)
    /\ (\A k \in Attempts : LaunchFailed(k)) =>
          /\ log_calls = 0
          /\ sup_error \in {"none", "RuntimeError"}
          /\ spc = "exhausted" <=> sup_error = "RuntimeError"
          /\ spc = "exhausted" => launches = MAX_RETRY + 1
          /\ (spc = "while" /\ launches = MAX_RETRY + 1) => retry_count > MAX_RETRY

C14_Witness ==
    /\ spc = "exhausted"
    /\ launches = MAX_RETRY + 1
    /\ hist[1].launch = "raised"
    /\ hist[2].launch = "falsy"
    /\ hist[3].launch = "raised"

\* C15: the task returns after k failed attempts (k <= MAX_RETRY) and a
\* successful one with launch_fn invoked exactly k + 1 times; and after k
\* failed attempts, k <= MAX_RETRY, a further attempt is made.
AttemptFailed(k) == LaunchFailed(k) \/ (hist[k].launch = "id" /\ hist[k].final \in FailFinals)

C15_Recovery ==
    /\ spc = "returned" =>
          /\ launches = Len(hist)
          /\ launches = retry_count + 1
          /\ launches <= MAX_RETRY + 1
          /\ \A k \in 1..(Len(hist) - 1) : AttemptFailed(k)
          /\ hist[Len(hist)].launch = "id"
          /\ hist[Len(hist)].final \in SuccessFinals
    /\ (spc = "while" /\ Len(hist) <= MAX_RETRY) => retry_count = Len(hist)
    /\ spc = "exhausted" => Len(hist) = MAX_RETRY + 1

C15_Witness ==
    /\ spc = "returned"
    /\ launches = 2
    /\ hist[1].launch = "raised"
    /\ hist[2].final = StSucceeded

\* C16: a poll that gives Pending, Running or Terminating is followed by one
\* sleep and another poll, with the retry counter and the launches as they
\* were; and an attempt that polls Completed after any number of these is
\* the only one, the task returning after it.
C16_NonTerminalPolls ==
    [][ /\ (spc = "poll" /\ polls' = polls + 1 /\ status' \in RemoteNonTerminal) =>
              /\ spc' = "sleep"
              /\ retry_count' = retry_count
              /\ launches' = launches
              /\ sup_error' = "none"
        /\ (spc = "sleep" /\ spc' # "sleep") =>
              /\ spc' = "poll"
              /\ sleeps' = sleeps + 1
              /\ polls' = polls
              /\ retry_count' = retry_count
              /\ launches' = launches
        /\ (spc' = "returned" /\ hist'[1].final = StCompleted) =>
              /\ launches' = 1
              /\ retry_count' = 0
              /\ sleeps' = polls' - 1
      ]_vars

C16_Witness ==
    /\ spc = "returned"
    /\ launches = 1
    /\ status = StCompleted
    /\ polls = MaxPolls + 1
    /\ sleeps = MaxPolls

\* C17: the logs of every session whose attempt ended with Error, Failed or
\* a vanished session have been fetched, under that session's id and after
\* its last poll, before the next launch or the RuntimeError.
C17_LogsBeforeDiscard ==
    /\ \A k \in Attempts :
          (hist[k].launch = "id" /\ hist[k].final \in FailFinals) =>
              hist[k].sid \in logged
    /\ \A sid \in logged :
          \E k \in Attempts :
              /\ hist[k].launch = "id"
              /\ hist[k].sid = sid
              /\ k = Len(hist) => status \in SuccessFinals \cup FailFinals
    /\ spc \in {"launch", "exhausted", "incr", "while"} =>
          \A k \in Attempts : hist[k].launch = "id" => hist[k].sid \in logged

C17_Witness ==
    /\ spc = "launch"
    /\ Len(hist) = 1
    /\ hist[1].final = NoneVal
    /\ hist[1].sid \in logged
    /\ log_calls = 1

\* C18: the outcome of the task and the number of launches are a function
\* of what the launches gave and of the statuses that ended the polls alone:
\* whatever the log retrieval returns, the step after it is decided by the
\* status, and the call ends as these decide.
C18_LogsDoNotDecide ==
    [][ /\ (spc = "check" /\ spc' # "check") =>
              /\ spc' = (IF status \in SuccessFinals THEN "returned" ELSE "incr")
              /\ retry_count' = retry_count
              /\ launches' = launches
        /\ (spc = "logs" /\ spc' = "check") =>
              /\ status' = status
              /\ retry_count' = retry_count
              /\ launches' = launches
        /\ spc' = "returned" =>
              /\ hist'[Len(hist')].final \in SuccessFinals
              /\ launches' = Len(hist')
        /\ spc' = "exhausted" =>
              /\ \A k \in 1..Len(hist') : hist'[k].final \notin SuccessFinals
              /\ launches' = MAX_RETRY + 1
      ]_vars

C18_Witness ==
    /\ spc = "returned"
    /\ logs_dict = NoneVal
    /\ launches = 2

\* C19: the session id is that of the first tag, in list order, that starts
\* with "canfar_session:", stripped; when that tag gives a blank id there is
\* no id, whatever later tags carry; other tags are passed over.
C19_FirstMatchingTag ==
    dpc \in {"extracted", "decided"} => d_session_id = ExpectedSid(d_tags)

C19_Witness ==
    /\ dpc = "extracted"
    /\ d_tags = <<TAG_PREFIX, TagS2Padded>>
    /\ d_session_id = NoneVal

\* C20: at most one session of the call is not yet in a final status, and
\* it is the one of the current attempt; every earlier session has been seen
\* in Error, Failed or gone before the next launch.
RemoteFinal == { StSucceeded, StCompleted, StError, StFailed, NotOpen }

C20_SingleSession ==
    /\ Cardinality({ n \in 1..Len(remote) : remote[n] \notin RemoteFinal }) <= 1
    /\ \A n \in 1..Len(remote) :
          remote[n] \notin RemoteFinal => SessionIdOf(n) = sup_session_id
    /\ \A n \in 1..(Len(remote) - 1) : remote[n] \in {StError, StFailed, NotOpen}

C20_Witness ==
    /\ Len(remote) = 3
    /\ remote[1] = StError
    /\ remote[2] = NotOpen
    /\ remote[3] = StRunning
    /\ spc = "sleep"

\* C21: when no status poll and no log retrieval raises and every session
\* launched comes to a final status (Completed, Succeeded, Error, Failed or
\* gone), the task ends: it returns or raises RuntimeError.
AllSessionsFinal == \A n \in 1..Len(remote) : remote[n] \in RemoteFinal

C21_Termination ==
    ([]<>AllSessionsFinal /\ [](spc # "propagated"))
        => <>(spc \in {"returned", "exhausted"})

C21_Witness ==
    /\ spc = "returned"
    /\ launches = MAX_RETRY + 1
    /\ sleeps = 2
    /\ AllSessionsFinal

\* C22: an exception of the status poll or of the log retrieval ends the
\* call at once: the retry counter and the launches stay as they are, no
\* statement of the task follows, and the attempt is not taken for a failed
\* one; so also when the poll had ended with Completed or Succeeded.
C22_CanfarErrorsPropagate ==
    [][ /\ sup_error' \in {"get_session_status", "logs"} =>
              /\ spc' = "propagated"
              /\ retry_count' = retry_count
              /\ launches' = launches
              /\ retry_count' = launches' - 1
              /\ hist'[Len(hist')].final = Unset
        /\ spc = "propagated" =>
              /\ spc' = "propagated"
              /\ sup_error' = sup_error
              /\ launches' = launches
              /\ log_calls' = log_calls
        /\ spc' = "propagated" => sup_error' \in {"get_session_status", "logs"}
      ]_vars

C22_Witness ==
    /\ spc = "propagated"
    /\ sup_error = "logs"
    /\ status = StSucceeded
    /\ launches = 1
    /\ retry_count = 0

\* C23: a status poll or a log retrieval is made only in an attempt whose
\* launch returned a session id, and for that id, which is the id of the
\* session launched last; after a launch that raised or returned a falsy
\* value session_id is falsy, and nothing is polled or logged.
IdLaunches == { k \in Attempts : hist[k].launch = "id" }

C23_PollingNeedsSessionId ==
    /\ spc \in {"poll", "sleep", "logs", "check"} =>
          /\ hist[Len(hist)].launch = "id"
          /\ sup_session_id = hist[Len(hist)].sid
          /\ sup_session_id = SessionIdOf(Cardinality(IdLaunches))
          /\ Len(remote) = Cardinality(IdLaunches)
    /\ (Len(hist) >= 1 /\ LaunchFailed(Len(hist)) /\ spc # "launch") =>
          /\ ~ Truthy(sup_session_id)
          /\ spc \in {"if_session", "incr", "while", "exhausted"}
          /\ spc = "incr" => (polls = 0 /\ sleeps = 0)
    /\ logged \subseteq { hist[k].sid : k \in IdLaunches }
    /\ log_calls <= Cardinality(IdLaunches)

C23_Witness ==
    /\ spc = "incr"
    /\ Len(hist) = 2
    /\ hist[1].launch = "id"
    /\ hist[1].final = StError
    /\ hist[2].launch = "raised"
    /\ log_calls = 1
    /\ polls = 0

\* ------------------------------------------------ claims: the pass, again

\* C24: when the set_failed write of a flow-run raises, the flow-runs
\* written earlier in the pass stay FAILED and are counted in failed_marked,
\* no flow-run later in the fetch is written, and the pass gives no
\* ReconcileResult.
WriteRaised == pc = "raised" /\ error = "set_flow_run_state"
EarlierEligible ==
    { r \in Missing : \E j \in 1..(idx - 1) : running_flow_runs[j] = r }

C24_PartialEffect ==
    WriteRaised =>
        /\ result = NoResult
        /\ idx <= Len(running_flow_runs)
        /\ running_flow_runs[idx] \in Missing
        /\ issued[running_flow_runs[idx]] = 1
        /\ \A r \in EarlierEligible :
              /\ issued[r] = 1
              /\ applied_total[r] = 1
              /\ state[r] = "Failed"
        /\ failed_marked = Cardinality(EarlierEligible)
        /\ \A j \in (idx + 1)..Len(running_flow_runs) : issued[running_flow_runs[j]] = 0

C24_Witness ==
    /\ WriteRaised
    /\ idx = 2
    /\ failed_marked = 1
    /\ state[running_flow_runs[1]] = "Failed"
    /\ state[running_flow_runs[2]] = "Running"
    /\ applied_total[running_flow_runs[2]] = 0

\* C26: the fetch returns RUNNING flow-runs, as many as there are but no
\* more than limit; only fetched flow-runs are written or counted, and
\* running_flow_runs of the result is the number fetched.
NumRunning == Cardinality({ r \in Recs : state[r] = "Running" })

C26_LimitCap ==
    [][ /\ (pc = "fetch_prefect" /\ pc' \in {"reconcile", "outage"}) =>
              /\ Len(running_flow_runs') = (IF NumRunning < limit THEN NumRunning ELSE limit)
              /\ \A k \in 1..Len(running_flow_runs') : state[running_flow_runs'[k]] = "Running"
              /\ state' = state
        /\ pc' \in {"reconcile", "outage", "returned", "raised"} =>
              /\ Len(running_flow_runs') <= limit'
              /\ Cardinality(Fetched') = Len(running_flow_runs')
              /\ \A r \in Recs \ Fetched' : issued'[r] = 0
              /\ idx' <= Len(running_flow_runs') + 1
        /\ pc' = "returned" =>
              /\ result'.running_flow_runs = Len(running_flow_runs')
              /\ result'.running_flow_runs <= limit'
              /\ result'.checked_tagged_running + result'.skipped_untagged
                    <= limit'
      ]_vars

C26_Witness ==
    /\ pc = "returned"
    /\ limit = 1
    /\ result.running_flow_runs = 1
    /\ result.failed_marked = 1
    /\ state[1] = "Failed"
    /\ state[2] = "Running"
    /\ 2 \in Tagged
    /\ ExpectedSid(tags[2]) \notin running_canfar_sessions
    /\ write_pre[2] = NeverWritten

\* C28: every ReconcileResult returned has running_flow_runs =
\* checked_tagged_running + skipped_untagged and 0 <= failed_marked =
\* missing_or_not_running <= checked_tagged_running; that of an outage pass
\* counts in checked_tagged_running every fetched flow-run with a session id
\* and has no failure.
C28_CounterPartition ==
    pc = "returned" =>
        /\ result.running_flow_runs
              = result.checked_tagged_running + result.skipped_untagged
        /\ 0 <= result.failed_marked
        /\ result.failed_marked = result.missing_or_not_running
        /\ result.missing_or_not_running <= result.checked_tagged_running
        /\ result.checked_tagged_running = Cardinality(Fetched \cap Tagged)
        /\ ~ result.canfar_ok =>
              /\ fetch_raised
              /\ result.failed_marked = 0
              /\ \A r \in Recs : issued[r] = 0

C28_Witness ==
    /\ pc = "returned"
    /\ ~ result.canfar_ok
    /\ result.running_flow_runs = 2
    /\ result.checked_tagged_running = 1
    /\ result.skipped_untagged = 1

\* C27: in main_flow launch_session is called only once the reconciliation
\* task has returned, and at most once; when the task raises, nothing is
\* launched and the flow ends raised; a task that returns from an outage
\* (canfar_ok false) is followed by the launch like any other.
C27_ReconcileBeforeSubmit ==
    /\ flow_launches <= 1
    /\ flow_launches = 1 =>
          /\ pc = "returned"
          /\ result # NoResult
          /\ error = "none"
          /\ flow_pc \in {"done", "raised"}
    /\ pc # "returned" => (flow_launches = 0 /\ flow_pc \in {"reconcile", "raised"})
    /\ pc = "raised" => (flow_launches = 0 /\ flow_pc # "done")
    /\ flow_pc = "done" => flow_launches = 1
    /\ (flow_pc = "raised" /\ flow_launches = 0) => (pc = "raised" /\ error # "none")

C27_Witness ==
    /\ flow_pc = "done"
    /\ flow_launches = 1
    /\ ~ result.canfar_ok
    /\ result.checked_tagged_running >= 1
    /\ \A r \in Recs : state[r] # "Failed"

\* C30: a frame with no rows, or one that lacks the status or the id
\* column, gives an empty running set with canfar_ok true, and a flow-run with
\* a session id is then failed whatever its session.
NoRowsOrColumnMissing ==
    \/ session_df.rows = {}
    \/ "status" \notin session_df.columns
    \/ "id" \notin session_df.columns

C30_EmptyListingIsNoOutage ==
    (dpc # "frame" /\ NoRowsOrColumnMissing) =>
        /\ canfar_ok
        /\ d_running = {}
        /\ (dpc = "decided" /\ ExpectedSid(d_tags) # NoneVal) => d_outcome = "failed"
        /\ (dpc = "decided" /\ ExpectedSid(d_tags) = NoneVal) => d_outcome = "skipped"

C30_Witness ==
    /\ dpc = "decided"
    /\ "status" \notin session_df.columns
    /\ "id" \in session_df.columns
    /\ \E row \in session_df.rows : row.id = Sid1
    /\ d_tags = <<TagS1>>
    /\ canfar_ok
    /\ d_outcome = "failed"

\* ------------------------------------------- claims: passes side by side

\* The flow-runs pass p fetched, and those of them it has gone through.
CFetched(p) == { c_frs[p][k] : k \in 1..Len(c_frs[p]) }
CDone(p) == { c_frs[p][k] : k \in 1..(c_idx[p] - 1) }
\* Fetched by p, tagged, and the session not in the set p built at its start.
CMissing(p) ==
    { r \in CFetched(p) \cap Tagged : ExpectedSid(tags[r]) \notin c_running[p] }
CReturnedOk(p) == c_pc[p] = "returned" /\ c_canfar_ok[p]

ExactTerminal == { StCompleted, StSucceeded, StError, StFailed, NoneVal }

\* C31: a polled status that is not exactly "Completed", "Succeeded", "Error",
\* "Failed" or None (an unlisted value, or a case variant such as "completed"
\* or "FAILED") is returned to nobody: the poll is followed by a sleep and the
\* sleep by another poll of the same session, with no retry consumed, no
\* launch and no log retrieval; the comparison is case-sensitive.
C31_OpenStatusSet ==
    [][ /\ (spc = "poll" /\ polls' = polls + 1) =>
              /\ status' = get_session_status(remote, sup_session_id)
              /\ (status' \notin ExactTerminal) =>
                    /\ spc' = "sleep"
                    /\ retry_count' = retry_count
                    /\ launches' = launches
                    /\ log_calls' = log_calls
                    /\ sup_session_id' = sup_session_id
              /\ (status' \in ExactTerminal) => spc' = "logs"
        /\ (spc = "sleep" /\ spc' # "sleep") =>
              /\ spc' = "poll"
              /\ retry_count' = retry_count
              /\ sup_session_id' = sup_session_id
      ]_vars

\* "completed" was polled twice in the first attempt, which is still polling.
C31_Witness ==
    /\ spc = "sleep"
    /\ status = St_completed
    /\ polls = 2
    /\ sleeps = 1
    /\ retry_count = 0
    /\ launches = 1

\* ------------------------------------------- claims on the log retrievals

\* The attempts whose poll_canfar has returned.
PolledAttempts ==
    { k \in IdLaunches :
        k < Len(hist) \/ spc \in {"logs", "check", "incr", "while", "launch", "returned", "exhausted"}
                     \/ (spc = "propagated" /\ sup_error = "logs") }

\* C32: session.logs is called once for every attempt whose launch returned
\* a session id and whose polling ended, the successful attempt included: the
\* call follows the terminal poll of that attempt's session, and when the task
\* returns or raises RuntimeError the number of calls is the number of
\* attempts whose launch returned a session id (one, for a task that succeeds
\* at the first attempt).
C32_LogsOncePerPolledAttempt ==
    /\ spc = "logs" =>
          /\ log_calls = Cardinality(PolledAttempts) - 1
          /\ status \in ExactTerminal
          /\ status = get_session_status(remote, sup_session_id)
          /\ sup_session_id \notin logged
    /\ spc # "logs" => log_calls = Cardinality(PolledAttempts)
    /\ spc \in {"returned", "exhausted", "while", "incr"} =>
          /\ log_calls = Cardinality(IdLaunches)
          /\ logged = { hist[k].sid : k \in IdLaunches }
          /\ Cardinality(logged) = log_calls
    /\ (spc = "returned" /\ launches = 1) => (log_calls = 1 /\ logged = {sup_session_id})

\* The first attempt succeeded, after non-terminal polls, and its logs were
\* retrieved.
C32_Witness ==
    /\ spc = "returned"
    /\ launches = 1
    /\ polls >= 2
    /\ status = StSucceeded
    /\ log_calls = 1

\* ------------------------------------------- claims on poll_canfar

\* C33: poll_canfar returns only "Completed", "Succeeded", "Error", "Failed"
\* or None, and returns such a value at the poll that first observes one; it
\* sleeps once after every other observation and not after the one it
\* returns; nothing sleeps between the end of a failed attempt and the next
\* launch.
C33_PollCanfar ==
    /\ [] /\ spc \in {"logs", "check"} => (status \in ExactTerminal /\ sleeps = polls - 1)
          /\ spc = "sleep" => (status \notin ExactTerminal /\ sleeps = polls - 1)
          /\ spc = "poll" => sleeps = polls
    /\ [][ /\ (spc = "poll" /\ polls' = polls + 1) =>
                 IF get_session_status(remote, sup_session_id) \in ExactTerminal
                 THEN /\ spc' = "logs"
                      /\ status' = get_session_status(remote, sup_session_id)
                      /\ sleeps' = sleeps
                 ELSE /\ spc' = "sleep"
                      /\ sleeps' = sleeps
           /\ (spc = "sleep" /\ spc' # "sleep") => (spc' = "poll" /\ sleeps' = sleeps + 1)
           /\ sleeps' # sleeps =>
                 \/ spc = "sleep"
                 \/ spc = "if_session" /\ sleeps' = 0
         ]_vars

\* A failed attempt that slept twice is over and the next launch is due; no
\* sleep was added since its poll returned.
C33_Witness ==
    /\ spc = "launch"
    /\ retry_count = 1
    /\ hist[1].final = StFailed
    /\ polls = 3
    /\ sleeps = 2

\* ------------------------------------------- claims on the RuntimeError

\* The RuntimeError is raised only with the counter at MAX_RETRY + 1, after
\* MAX_RETRY + 1 launches none of which led to success.
RaisedWhenSpent ==
    /\ sup_error = "RuntimeError" <=> spc = "exhausted"
    /\ sup_message # NoMessage <=> spc = "exhausted"
    /\ spc = "exhausted" =>
          /\ retry_count = MAX_RETRY + 1
          /\ launches = MAX_RETRY + 1
          /\ Len(hist) = launches
          /\ \A k \in Attempts : AttemptFailed(k)

\* C34 as stated: the RuntimeError is raised only with the counter at
\* MAX_RETRY + 1, and the number in its message is the number of launch_fn
\* invocations of the call.
C34_MessageCountsAttempts ==
    /\ RaisedWhenSpent
    /\ spc = "exhausted" => sup_message = launches

\* C34, amended: the RuntimeError is raised only with the counter at
\* MAX_RETRY + 1, after MAX_RETRY + 1 launch_fn invocations none of which led
\* to success; the number in its message is MAX_RETRY, the number of retries,
\* one less than the number of launch_fn invocations.
C34_MessageCountsRetries ==
    /\ RaisedWhenSpent
    /\ spc = "exhausted" =>
          /\ sup_message = MAX_RETRY
          /\ sup_message = launches - 1

\* The RuntimeError was raised after a launch that raised, a launch that
\* returned nothing and a session that failed.
C34_Witness ==
    /\ spc = "exhausted"
    /\ sup_message = MAX_RETRY
    /\ launches = MAX_RETRY + 1
    /\ hist[1].launch = "raised"
    /\ hist[2].launch = "falsy"
    /\ hist[3].final = StFailed

====
